---------------------------- MODULE Spec2Model ----------------------------
(***************************************************************************)
(* CoursePilot (college-course-organizer.cpp): a Qt desktop program over a *)
(* SQLite file.  The model has the four tables of the store, the SQLite    *)
(* AUTOINCREMENT counters, and the state of the one running process: which *)
(* window or dialog has the input focus, the session (user id, semester    *)
(* id) and the contents of the three views of the main window.             *)
(*                                                                         *)
(* Every SQL statement may fail at run time (QSqlQuery::exec() returning   *)
(* false: a locked or unreadable database file); an action takes the       *)
(* outcome of each statement it executes as a BOOLEAN parameter.  A failed *)
(* statement changes nothing (SQLite statement atomicity).  transaction(), *)
(* commit() and rollback() themselves are taken to succeed.  The FOREIGN   *)
(* KEY clauses of the schema are not enforced: SQLite checks them only     *)
(* after PRAGMA foreign_keys = ON, which the program never executes.       *)
(***************************************************************************)
EXTENDS Integers, Sequences, FiniteSets, TLC

VARIABLES
    users,        \* table users:       set of rows
    semesters,    \* table semesters:   set of rows
    courses,      \* table courses:     set of rows
    assignments,  \* table assignments: set of rows
    seq,          \* sqlite_sequence: the largest id ever committed, per table
    pc,           \* where the process is: "start", "auth", "picker", "main",
                  \* "courseDlg", "assignDlg", "exited"
    userId_,      \* AuthDialog::userId_ / MainWindow::userId_
    semesterId_,  \* MainWindow::semesterId_
    courses_,     \* MainWindow::courses_  (list items, in display order)
    curCourse,    \* index of courses_->currentItem(), 0 = none
    assigns_,     \* MainWindow::assigns_  (table rows, in display order)
    curRow,       \* assigns_->currentRow() + 1, 0 = none
    upcoming_,    \* MainWindow::upcoming_ (list items, in display order)
    dlg,          \* the open CourseDialog / AssignmentDialog: its constructor arguments
    msg,          \* the message box shown by the last handler, NoMsg if none
    last          \* the last handler that ran, with what it returned to its caller

store == <<users, semesters, courses, assignments, seq>>
views == <<courses_, curCourse, assigns_, curRow, upcoming_>>
vars  == <<users, semesters, courses, assignments, seq, pc, userId_,
           semesterId_, courses_, curCourse, assigns_, curRow, upcoming_,
           dlg, msg, last>>

----------------------------------------------------------------------------
(* Bounds of the model *)

MaxUserId   == 2      \* rows ever inserted into users
MaxSemId    == 3      \* rows ever inserted into semesters
MaxCourseId == 2      \* rows ever inserted into courses
MaxAssignId == 2      \* rows ever inserted into assignments
MaxDue      == 2      \* due instants are 1..MaxDue
MaxYears    == 1      \* years offered by the spin box: YearMin..YearMin+MaxYears-1
MaxRows     == 11     \* rows ever inserted into assignments in SpecRank
MaxTieRows  == 3      \* largest query result whose tie orders are all listed
MaxSeedRows == 2      \* assignment rows of the seeded stores of SpecScope

(* Program constants *)
YearMin     == 2022   \* year_->setRange(2022, 2042)
UpcomingK   == 10     \* while (!pq.empty() && shown < 10)

(* Texts the user can type or choose *)
UsernameTexts == {"alice", "bob"}
PasswordTexts == {"pw1", "pw2"}
Terms         == {"Fall", "Spring"}
Years         == YearMin .. (YearMin + MaxYears - 1)
CodeOrder     == <<"CS101", "MA201">>   \* in ascending collation order
CodeTexts     == {CodeOrder[i] : i \in 1..Len(CodeOrder)}
NameTexts     == {"Intro"}
ColorTexts    == {""}
TypeChoices   == {"HW"}
TitleTexts    == {"T"}
TopicsTexts   == {""}
NotesTexts    == {""}
Dues          == 1..MaxDue
RankDues      == {1, 2}
Clock         == {1000, 2000}

Null   == "<NULL>"
NoMsg  == <<>>
NoDlg  == [kind |-> "none", editId |-> -1, courseId |-> -1]

----------------------------------------------------------------------------
(* Domain types and enum mapping *)

TypeNames == <<"HW", "Quiz", "Midterm", "Final", "Project", "Essay", "Other">>

\* enum class AssignType, as 0..6
toString(t) == IF t \in 0..5 THEN TypeNames[t + 1] ELSE "Other"

parseAssignType(s) ==
    IF \E i \in 1..6 : TypeNames[i] = s
    THEN (CHOOSE i \in 1..6 : TypeNames[i] = s) - 1
    ELSE 6

\* the comparison the other way round, which would make the queue a max-heap
DueSooner_later(a, b) == a.dueAtUtc < b.dueAtUtc

\* DueSooner::operator(): the priority queue's "less": a sorts below b
DueSooner(a, b) == a.dueAtUtc > b.dueAtUtc

hashPassword(pw) == <<"sha256", pw>>

\* color_->text().isEmpty() ? "#4F46E5" : color_->text()
colorOrDefault(text) == IF text = "" THEN "#4F46E5" ELSE text

\* text.isEmpty() ? QVariant(QString()) : QVariant(text): a null string binds as NULL
textOrNull(text) == IF text = "" THEN Null ELSE text

----------------------------------------------------------------------------
(* Sequences and orderings *)

CodeRank(code) == CHOOSE i \in 1..Len(CodeOrder) : CodeOrder[i] = code

Min(S) == CHOOSE x \in S : \A y \in S : x <= y
RECURSIVE TieOrders(_)
\* every listing of the set K of [k, id, row] that ascends in k
TieOrders(K) ==
    IF K = {} THEN {<<>>}
    ELSE LET m == Min({x.k : x \in K})
         IN  UNION {{<<x.row>> \o t : t \in TieOrders(K \ {x})} : x \in {y \in K : y.k = m}}

RECURSIVE AscendingTies(_)
\* the listing of K that ascends in k and, for equal k, in id
AscendingTies(K) ==
    IF K = {} THEN <<>>
    ELSE LET x == CHOOSE x \in K : \A y \in K : x.k < y.k \/ (x.k = y.k /\ x.id <= y.id)
         IN  <<x.row>> \o AscendingTies(K \ {x})

RECURSIVE DescendingTies(_)
\* the listing of K that ascends in k and, for equal k, descends in id
DescendingTies(K) ==
    IF K = {} THEN <<>>
    ELSE LET x == CHOOSE x \in K : \A y \in K : x.k < y.k \/ (x.k = y.k /\ x.id >= y.id)
         IN  <<x.row>> \o DescendingTies(K \ {x})

\* the orders in which SELECT ... ORDER BY k can deliver the rows K: ascending
\* in the key; SQL leaves the order of rows with equal keys open.  Up to
\* MaxTieRows rows every such order is listed; for larger results the rows of
\* equal key come in ascending or in descending rowid order.
OrderBy(K) ==
    IF Cardinality(K) <= MaxTieRows THEN TieOrders(K)
    ELSE {AscendingTies(K), DescendingTies(K)}

OrderByDue(S) == OrderBy({[k |-> r.due_at_utc, id |-> r.id, row |-> r] : r \in S})
OrderByCode(S) == OrderBy({[k |-> CodeRank(r.code), id |-> r.id, row |-> r] : r \in S})

----------------------------------------------------------------------------
(* std::priority_queue<Assignment, std::vector<Assignment>, DueSooner>:    *)
(* a binary heap in a vector, kept by std::push_heap and std::pop_heap     *)
(* (the libstdc++ algorithms).  Index i of the vector is element i+1 of    *)
(* the sequence.                                                           *)

At(h, i) == h[i + 1]
Put(h, i, v) == [h EXCEPT ![i + 1] = v]

RECURSIVE PushHeapLoop(_, _, _, _)
\* std::__push_heap: move the hole up while the parent sorts below the value
PushHeapLoop(h, hole, top, v) ==
    LET parent == (hole - 1) \div 2
    IN  IF hole > top /\ DueSooner(At(h, parent), v)
        THEN PushHeapLoop(Put(h, hole, At(h, parent)), parent, top, v)
        ELSE Put(h, hole, v)

\* priority_queue::push: c.push_back(v); std::push_heap(c.begin(), c.end(), comp)
PqPush(h, v) == PushHeapLoop(Append(h, v), Len(h), 0, v)

RECURSIVE AdjustHeapLoop(_, _, _, _, _)
\* std::__adjust_heap: move the hole down to a leaf along the larger children,
\* then push the value up from there
AdjustHeapLoop(h, hole, child, len, v) ==
    IF child < (len - 1) \div 2
    THEN LET c2 == 2 * (child + 1)
             c  == IF DueSooner(At(h, c2), At(h, c2 - 1)) THEN c2 - 1 ELSE c2
         IN  AdjustHeapLoop(Put(h, hole, At(h, c)), c, c, len, v)
    ELSE IF len % 2 = 0 /\ child = (len - 2) \div 2
         THEN LET c2 == 2 * (child + 1)
              IN  PushHeapLoop(Put(h, hole, At(h, c2 - 1)), c2 - 1, 0, v)
         ELSE PushHeapLoop(h, hole, 0, v)

\* priority_queue::top
PqTop(h) == h[1]

\* priority_queue::pop: std::pop_heap(c.begin(), c.end(), comp); c.pop_back()
PqPop(h) ==
    IF Len(h) <= 1 THEN <<>>
    ELSE LET len == Len(h) - 1
             v   == h[Len(h)]
         IN  SubSeq(AdjustHeapLoop(h, 0, 0, len, v), 1, len)

RECURSIVE PqPushAll(_, _)
\* the loop "while (q.next()) { ...; pq.push(a); }" over the delivered rows
PqPushAll(h, rows) ==
    IF rows = <<>> THEN h ELSE PqPushAll(PqPush(h, Head(rows)), Tail(rows))

RECURSIVE PqPopUpTo(_, _)
\* the loop "while (!pq.empty() && shown < 10) { a = pq.top(); pq.pop(); ... shown++ }"
PqPopUpTo(h, n) ==
    IF h = <<>> \/ n = 0 THEN <<>>
    ELSE <<PqTop(h)>> \o PqPopUpTo(PqPop(h), n - 1)

\* the Assignment struct reloadUpcoming builds from a row of its query
AssignmentOf(row) ==
    [id       |-> row.id,
     courseId |-> row.course_id,
     type     |-> parseAssignType(row.type),
     title    |-> row.title,
     dueAtUtc |-> row.due_at_utc,
     topics   |-> row.topics]

\* the Assignments reloadUpcoming pops, in order, from the rows its query delivered
TopUpcoming(rows) ==
    PqPopUpTo(PqPushAll(<<>>, [i \in 1..Len(rows) |-> AssignmentOf(rows[i])]), UpcomingK)

----------------------------------------------------------------------------
(* The store: what the SQL statements of the program compute *)

Msg(title, text) == <<title, text>>
\* what is kept of the last handler: its name, an argument, what it returned,
\* and the outcome of the query of reloadUpcoming if it ran it ("-" if not)
Did(op, arg, ret) == [op |-> op, arg |-> arg, ret |-> ret, up |-> "-"]
DidUp(op, arg, ret, okU) ==
    [op |-> op, arg |-> arg, ret |-> ret, up |-> IF okU THEN "ok" ELSE "failed"]

UserRow(id, username, hash, t) ==
    [id |-> id, username |-> username, password_hash |-> hash, created_at |-> t]
SemesterRow(id, term, year) == [id |-> id, term |-> term, year |-> year]
CourseRow(id, uid, sid, code, name, color) ==
    [id |-> id, user_id |-> uid, semester_id |-> sid, code |-> code, name |-> name,
     color_hex |-> color]
AssignmentRow(id, cid, type, title, due, topics, notes) ==
    [id |-> id, course_id |-> cid, type |-> type, title |-> title, due_at_utc |-> due,
     topics |-> topics, notes |-> notes]

Ids(T) == {r.id : r \in T}
RowOf(T, id) == CHOOSE r \in T : r.id = id

\* the same query with a WHERE clause that lacks c.user_id = ?
UpcomingQuery_anyUser(A, C, sid, uid) ==
    {a \in A : \E c \in C : a.course_id = c.id /\ c.semester_id = sid}

\* SELECT ... FROM assignments a JOIN courses c ON a.course_id = c.id
\*   WHERE c.semester_id = ? AND c.user_id = ?
UpcomingQuery(A, C, sid, uid) ==
    {a \in A : \E c \in C : a.course_id = c.id /\ c.semester_id = sid /\ c.user_id = uid}

\* SELECT id, code, name FROM courses WHERE user_id=? AND semester_id=?
CoursesQuery(C, uid, sid) == {c \in C : c.user_id = uid /\ c.semester_id = sid}

\* SELECT id, type, title, due_at_utc, topics FROM assignments WHERE course_id=?
AssignmentsQuery(A, cid) == {a \in A : a.course_id = cid}

\* SELECT id FROM semesters WHERE term=? AND year=?
SemesterQuery(S, term, year) == {r \in S : r.term = term /\ r.year = year}

\* SELECT id, password_hash FROM users WHERE username = ?
UserQuery(U, username) == {r \in U : r.username = username}

\* a users table whose username column lacks the UNIQUE constraint
UsernameTaken_never(U, username) == FALSE

\* username TEXT UNIQUE: an INSERT of this username violates the constraint
UsernameTaken(U, username) == \E r \in U : r.username = username

\* DELETE FROM assignments WHERE course_id=?
DeleteAssignmentsOf(A, cid) == {a \in A : a.course_id # cid}

\* DELETE FROM courses WHERE id=? / DELETE FROM assignments WHERE id=?
DeleteRow(T, id) == {r \in T : r.id # id}

\* UPDATE courses SET code=?, name=?, color_hex=? with no WHERE clause
UpdateCourse_all(C, id, code, name, color) ==
    {[c EXCEPT !.code = code, !.name = name, !.color_hex = color] : c \in C}

\* UPDATE courses SET code=?, name=?, color_hex=? WHERE id=?
UpdateCourse(C, id, code, name, color) ==
    {IF c.id = id THEN [c EXCEPT !.code = code, !.name = name, !.color_hex = color] ELSE c
       : c \in C}

\* UPDATE assignments SET type=?, title=?, due_at_utc=?, topics=?, notes=? WHERE id=?
UpdateAssignment(A, id, type, title, due, topics, notes) ==
    {IF a.id = id
     THEN [a EXCEPT !.type = type, !.title = title, !.due_at_utc = due,
                    !.topics = topics, !.notes = notes]
     ELSE a : a \in A}

----------------------------------------------------------------------------
(* The views of the main window *)

CourseItem(row) == [id |-> row.id, code |-> row.code, name |-> row.name]
AssignItem(row) ==
    [id |-> row.id, type |-> row.type, title |-> row.title, due |-> row.due_at_utc,
     topics |-> IF row.topics = Null THEN "" ELSE row.topics]

\* one item of the Upcoming list: the parts of its text, and the id of the
\* Assignment it was built from.  found: the SELECT code ... lookup gave a row
UpcomingItem(a, C, found) ==
    [id     |-> a.id,
     type   |-> toString(a.type),
     code   |-> IF found /\ a.courseId \in Ids(C) THEN RowOf(C, a.courseId).code ELSE "",
     title  |-> a.title,
     due    |-> a.dueAtUtc,
     topics |-> IF a.topics # Null /\ a.topics # "" THEN a.topics ELSE Null]

\* MainWindow::loadAssignments, run on the new state; okA: its query succeeds
loadAssignments(okA) ==
    /\ curRow' = 0
    /\ IF curCourse' = 0 \/ ~okA
       THEN assigns_' = <<>>
       ELSE \E rows \in OrderByDue(AssignmentsQuery(assignments', courses_'[curCourse'].id)) :
               assigns_' = [i \in 1..Len(rows) |-> AssignItem(rows[i])]

\* MainWindow::loadCourses, run on the new state; okC: its query succeeds.
\* setCurrentRow(0) runs loadAssignments through itemSelectionChanged and
\* loadCourses runs it again: okA is the outcome of the last run.
loadCourses(okC, okA) ==
    /\ \E rows \in (IF okC /\ semesterId_' >= 0
                    THEN OrderByCode(CoursesQuery(courses', userId_', semesterId_'))
                    ELSE {<<>>}) :
          courses_' = [i \in 1..Len(rows) |-> CourseItem(rows[i])]
    /\ curCourse' = IF Len(courses_') > 0 THEN 1 ELSE 0
    /\ loadAssignments(okA)

\* MainWindow::reloadUpcoming, run on the new state; okU: its query succeeds;
\* lookups: the per-item SELECT code FROM courses may fail
reloadUpcoming(okU, lookups) ==
    IF semesterId_' < 0 \/ ~okU
    THEN upcoming_' = <<>>
    ELSE \E rows \in OrderByDue(UpcomingQuery(assignments', courses', semesterId_', userId_')) :
           \E top \in {TopUpcoming(rows)} :
             \E bad \in (IF lookups THEN SUBSET (1..Len(top)) ELSE {{}}) :
               upcoming_' = [i \in 1..Len(top) |-> UpcomingItem(top[i], courses', i \notin bad)]

----------------------------------------------------------------------------
(* The process: main(), the AuthDialog, the SemesterPicker *)

NoSession ==
    /\ userId_' = -1 /\ semesterId_' = -1
    /\ courses_' = <<>> /\ curCourse' = 0 /\ assigns_' = <<>> /\ curRow' = 0
    /\ upcoming_' = <<>> /\ dlg' = NoDlg

\* the process ends: main returns ret
Exit(op, ret) ==
    /\ pc' = "exited" /\ NoSession
    /\ last' = Did(op, <<>>, ret)
    /\ UNCHANGED store

\* main without "return 1": the message box, then the AuthDialog all the same
main_proceeds(okOpen, okMigrate) ==
    /\ pc = "start"
    /\ pc' = "auth" /\ last' = Did("main", <<>>, "auth.exec")
    /\ msg' = IF okOpen /\ okMigrate
              THEN NoMsg
              ELSE Msg("DB Error", "Could not open or migrate SQLite DB.")
    /\ UNCHANGED <<store, userId_, semesterId_, views, dlg>>

\* main: open the database and run the migrations, then show the AuthDialog
main(okOpen, okMigrate) ==
    /\ pc = "start"
    /\ IF okOpen /\ okMigrate
       THEN /\ pc' = "auth" /\ msg' = NoMsg /\ last' = Did("main", <<>>, "auth.exec")
            /\ UNCHANGED <<store, userId_, semesterId_, views, dlg>>
       ELSE /\ msg' = Msg("DB Error", "Could not open or migrate SQLite DB.")
            /\ Exit("main", 1)

\* the program is started again on the same database file
Relaunch ==
    /\ pc = "exited"
    /\ pc' = "start" /\ msg' = NoMsg /\ last' = Did("start", <<>>, 0)
    /\ UNCHANGED <<store, userId_, semesterId_, views, dlg>>

\* what AuthDialog::onLogin establishes on the users table U: the user id it
\* accepts with (-1: it does not accept) and the message box it shows
onLoginResult(U, username, password, ok) ==
    LET rows == IF ok THEN UserQuery(U, username) ELSE {}
    IN  IF rows = {}
        THEN [id |-> -1, msg |-> Msg("Login failed", "User not found.")]
        ELSE LET r == CHOOSE r \in rows : TRUE
             IN  IF r.password_hash # hashPassword(password)
                 THEN [id |-> -1, msg |-> Msg("Login failed", "Incorrect password.")]
                 ELSE [id |-> r.id, msg |-> NoMsg]

AuthDialog_onLogin(username, password, ok) ==
    /\ pc = "auth"
    /\ LET res == onLoginResult(users, username, password, ok)
       IN  /\ msg' = res.msg
           /\ last' = Did("onLogin", <<username, password>>, res.id)
           /\ IF res.id < 0
              THEN UNCHANGED <<pc, userId_>>
              \* userId_ = id; accept(); main constructs the MainWindow, whose
              \* constructor calls pickSemester()
              ELSE userId_' = res.id /\ pc' = "picker"
    /\ UNCHANGED <<store, semesterId_, views, dlg>>

\* INSERT INTO users: fails on a username already there (username TEXT UNIQUE)
AuthDialog_onRegister(username, password, now, ok) ==
    /\ pc = "auth"
    /\ LET inserted == ok /\ ~UsernameTaken(users, username)
       IN  /\ inserted => seq.users < MaxUserId
           /\ IF inserted
              THEN /\ users' = users \cup
                         {UserRow(seq.users + 1, username, hashPassword(password), now)}
                   /\ seq' = [seq EXCEPT !.users = @ + 1]
                   /\ msg' = Msg("Registered", "User created. Please login.")
              ELSE /\ msg' = Msg("Register failed", "Username exists?")
                   /\ UNCHANGED <<users, seq>>
           /\ last' = Did("onRegister", <<username, password>>, inserted)
    /\ UNCHANGED <<semesters, courses, assignments, pc, userId_, semesterId_, views, dlg>>

\* the AuthDialog is closed: auth.exec() != Accepted, main returns 0
AuthDialog_close ==
    /\ pc = "auth"
    /\ msg' = NoMsg
    /\ Exit("main", 0)

\* SemesterPicker::onOk, and the rest of MainWindow::pickSemester after sp.exec()
SemesterPicker_onOk(term, year, okSelect, okInsert, okC, okA, okU) ==
    /\ pc = "picker"
    /\ LET found == IF okSelect THEN SemesterQuery(semesters, term, year) ELSE {}
           fresh == seq.semesters + 1
       IN  \E sid \in (IF found # {} THEN Ids(found) ELSE IF okInsert THEN {fresh} ELSE {-1}) :
             /\ (found = {} /\ okInsert) => seq.semesters < MaxSemId
             /\ IF found = {} /\ okInsert
                THEN /\ semesters' = semesters \cup {SemesterRow(fresh, term, year)}
                     /\ seq' = [seq EXCEPT !.semesters = fresh]
                ELSE UNCHANGED <<semesters, seq>>
             /\ UNCHANGED <<users, courses, assignments, userId_>>
             /\ IF sid > 0
                THEN /\ semesterId_' = sid
                     /\ loadCourses(okC, okA)
                     /\ reloadUpcoming(okU, TRUE)
                ELSE UNCHANGED <<semesterId_, views>>
             /\ last' = IF sid > 0 THEN DidUp("onOk", <<term, year>>, sid, okU)
                                   ELSE Did("onOk", <<term, year>>, sid)
    /\ pc' = "main" /\ msg' = NoMsg /\ dlg' = NoDlg

\* the SemesterPicker is closed: sp.exec() != Accepted
SemesterPicker_close ==
    /\ pc = "picker"
    /\ pc' = "main" /\ msg' = NoMsg /\ last' = Did("pickSemester", <<>>, -1)
    /\ UNCHANGED <<store, userId_, semesterId_, views, dlg>>

----------------------------------------------------------------------------
(* The main window *)

\* "Use Semester": MainWindow::pickSemester up to sp.exec()
pickSemester ==
    /\ pc = "main"
    /\ pc' = "picker" /\ msg' = NoMsg /\ last' = Did("pickSemester", <<>>, "sp.exec")
    /\ UNCHANGED <<store, userId_, semesterId_, views, dlg>>

\* MainWindow::addCourse up to cd.exec()
addCourse ==
    /\ pc = "main"
    /\ IF semesterId_ < 0
       THEN /\ msg' = Msg("Select semester", "Pick a semester first.")
            /\ UNCHANGED <<pc, dlg>>
       ELSE /\ pc' = "courseDlg" /\ msg' = NoMsg
            /\ dlg' = [kind |-> "course", editId |-> -1, courseId |-> -1]
    /\ last' = Did("addCourse", <<>>, 0)
    /\ UNCHANGED <<store, userId_, semesterId_, views>>

\* MainWindow::editCourse up to cd.exec()
editCourse ==
    /\ pc = "main"
    /\ IF curCourse = 0
       THEN /\ msg' = Msg("Edit course", "Select a course.")
            /\ UNCHANGED <<pc, dlg>>
       ELSE /\ pc' = "courseDlg" /\ msg' = NoMsg
            /\ dlg' = [kind |-> "course", editId |-> courses_[curCourse].id, courseId |-> -1]
    /\ last' = Did("editCourse", <<>>, 0)
    /\ UNCHANGED <<store, userId_, semesterId_, views>>

\* CourseDialog::onSave, and the rest of addCourse / editCourse after cd.exec()
CourseDialog_onSave(code, name, color, ok, okC, okA) ==
    /\ pc = "courseDlg"
    /\ LET insert == dlg.editId < 0
           done   == ok
           fresh  == seq.courses + 1
       IN  /\ (insert /\ done) => seq.courses < MaxCourseId
           /\ IF done
              THEN /\ IF insert
                      THEN /\ courses' = courses \cup
                                 {CourseRow(fresh, userId_, semesterId_, code, name,
                                            colorOrDefault(color))}
                           /\ seq' = [seq EXCEPT !.courses = fresh]
                      ELSE /\ courses' = UpdateCourse(courses, dlg.editId, code, name,
                                                      colorOrDefault(color))
                           /\ UNCHANGED seq
                   /\ UNCHANGED <<userId_, semesterId_, assignments>>
                   /\ pc' = "main" /\ dlg' = NoDlg /\ msg' = NoMsg
                   /\ loadCourses(okC, okA)
                   /\ UNCHANGED upcoming_
              ELSE /\ msg' = Msg("Error", IF insert THEN "Could not save course."
                                                    ELSE "Could not update course.")
                   /\ UNCHANGED <<courses, seq, assignments, pc, dlg, userId_, semesterId_, views>>
           /\ last' = Did("CourseDialog::onSave", dlg.editId, done)
    /\ UNCHANGED <<users, semesters>>

\* the CourseDialog is closed: cd.exec() != Accepted
CourseDialog_close ==
    /\ pc = "courseDlg"
    /\ pc' = "main" /\ dlg' = NoDlg /\ msg' = NoMsg
    /\ last' = Did("CourseDialog", <<>>, 0)
    /\ UNCHANGED <<store, userId_, semesterId_, views>>

\* MainWindow::deleteCourse.  yes: the answer to the question box; ok1, ok2:
\* the outcomes of the two DELETE statements
deleteCourse(yes, ok1, ok2, okC, okA, okU) ==
    /\ pc = "main"
    /\ UNCHANGED <<pc, dlg, userId_, semesterId_>>
    /\ IF curCourse = 0
       THEN /\ msg' = Msg("Delete course", "Select a course.")
            /\ last' = Did("deleteCourse", -1, <<>>)
            /\ UNCHANGED <<store, views>>
       ELSE IF ~yes
       THEN /\ msg' = NoMsg
            /\ last' = Did("deleteCourse", -1, <<>>)
            /\ UNCHANGED <<store, views>>
       ELSE LET courseId == courses_[curCourse].id
                left     == IF ok1 THEN DeleteAssignmentsOf(assignments, courseId)
                                   ELSE assignments
            IN  /\ assignments' = left
                /\ courses' = IF ok2 THEN DeleteRow(courses, courseId) ELSE courses
                /\ UNCHANGED <<users, semesters, seq>>
                /\ msg' = NoMsg
                /\ last' = DidUp("deleteCourse", courseId, <<ok1, ok2>>, okU)
                /\ loadCourses(okC, okA)
                /\ reloadUpcoming(okU, TRUE)


\* MainWindow::addAssignment up to ad.exec()
addAssignment ==
    /\ pc = "main"
    /\ IF curCourse = 0
       THEN /\ msg' = Msg("Add assignment", "Select a course.")
            /\ UNCHANGED <<pc, dlg>>
       ELSE /\ pc' = "assignDlg" /\ msg' = NoMsg
            /\ dlg' = [kind |-> "assignment", editId |-> -1,
                       courseId |-> courses_[curCourse].id]
    /\ last' = Did("addAssignment", <<>>, 0)
    /\ UNCHANGED <<store, userId_, semesterId_, views>>

\* MainWindow::editAssignment up to ad.exec()
editAssignment ==
    /\ pc = "main"
    /\ IF curCourse = 0
       THEN /\ msg' = Msg("Edit assignment", "Select a course.")
            /\ UNCHANGED <<pc, dlg>>
       ELSE IF curRow = 0
       THEN /\ msg' = Msg("Edit assignment", "Select an assignment.")
            /\ UNCHANGED <<pc, dlg>>
       ELSE /\ pc' = "assignDlg" /\ msg' = NoMsg
            /\ dlg' = [kind |-> "assignment", editId |-> assigns_[curRow].id,
                       courseId |-> courses_[curCourse].id]
    /\ last' = Did("editAssignment", <<>>, 0)
    /\ UNCHANGED <<store, userId_, semesterId_, views>>

\* AssignmentDialog::onSave, and the rest of addAssignment / editAssignment
\* after ad.exec().  maxId bounds the ids the model hands out
AssignmentDialog_onSave(type, title, due, topics, notes, ok, okA, okU, lookups, maxId) ==
    /\ pc = "assignDlg"
    /\ LET insert == dlg.editId < 0
           done   == ok
           fresh  == seq.assignments + 1
       IN  /\ (insert /\ done) => seq.assignments < maxId
           /\ IF done
              THEN /\ IF insert
                      THEN /\ assignments' = assignments \cup
                                 {AssignmentRow(fresh, dlg.courseId, type, title, due,
                                                textOrNull(topics), textOrNull(notes))}
                           /\ seq' = [seq EXCEPT !.assignments = fresh]
                      ELSE /\ assignments' = UpdateAssignment(assignments, dlg.editId, type,
                                                 title, due, textOrNull(topics),
                                                 textOrNull(notes))
                           /\ UNCHANGED seq
                   /\ UNCHANGED <<userId_, semesterId_, courses, courses_, curCourse>>
                   /\ pc' = "main" /\ dlg' = NoDlg /\ msg' = NoMsg
                   /\ loadAssignments(okA)
                   /\ reloadUpcoming(okU, lookups)
              ELSE /\ msg' = Msg("Error", IF insert THEN "Could not save assignment."
                                                    ELSE "Could not update assignment.")
                   /\ UNCHANGED <<courses, seq, assignments, pc, dlg, userId_, semesterId_, views>>
           /\ last' = IF done THEN DidUp("AssignmentDialog::onSave", dlg.editId, done, okU)
                              ELSE Did("AssignmentDialog::onSave", dlg.editId, done)
    /\ UNCHANGED <<users, semesters>>

\* the AssignmentDialog is closed: ad.exec() != Accepted
AssignmentDialog_close ==
    /\ pc = "assignDlg"
    /\ pc' = "main" /\ dlg' = NoDlg /\ msg' = NoMsg
    /\ last' = Did("AssignmentDialog", <<>>, 0)
    /\ UNCHANGED <<store, userId_, semesterId_, views>>

\* MainWindow::deleteAssignment.  The outcome of del.exec() is not looked at
deleteAssignment(yes, ok, okA, okU) ==
    /\ pc = "main"
    /\ UNCHANGED <<pc, dlg, userId_, semesterId_, users, semesters, courses, seq>>
    /\ IF curCourse = 0
       THEN /\ msg' = Msg("Delete assignment", "Select a course.")
            /\ last' = Did("deleteAssignment", -1, <<>>)
            /\ UNCHANGED <<assignments, views>>
       ELSE IF curRow = 0
       THEN /\ msg' = Msg("Delete assignment", "Select an assignment.")
            /\ last' = Did("deleteAssignment", -1, <<>>)
            /\ UNCHANGED <<assignments, views>>
       ELSE IF ~yes
       THEN /\ msg' = NoMsg
            /\ last' = Did("deleteAssignment", -1, <<>>)
            /\ UNCHANGED <<assignments, views>>
       ELSE LET assignId == assigns_[curRow].id
            IN  /\ assignments' = IF ok THEN DeleteRow(assignments, assignId) ELSE assignments
                /\ msg' = NoMsg
                /\ last' = DidUp("deleteAssignment", assignId, <<ok>>, okU)
                /\ UNCHANGED <<courses_, curCourse>>
                /\ loadAssignments(okA)
                /\ reloadUpcoming(okU, TRUE)

\* the user selects another course: itemSelectionChanged runs loadAssignments
selectCourse(i, okA) ==
    /\ pc = "main"
    /\ i \in 1..Len(courses_) /\ i # curCourse
    /\ curCourse' = i
    /\ UNCHANGED <<store, pc, dlg, userId_, semesterId_, courses_, upcoming_>>
    /\ loadAssignments(okA)
    /\ msg' = NoMsg /\ last' = Did("loadAssignments", <<>>, 0)

\* the user selects a row of the assignments table
selectAssignment(row) ==
    /\ pc = "main"
    /\ row \in 1..Len(assigns_) /\ row # curRow
    /\ curRow' = row
    /\ msg' = NoMsg /\ last' = Did("currentRow", <<>>, 0)
    /\ UNCHANGED <<store, pc, dlg, userId_, semesterId_, courses_, curCourse, assigns_, upcoming_>>

\* "Refresh Upcoming"
refreshUpcoming(okU) ==
    /\ pc = "main"
    /\ UNCHANGED <<store, pc, dlg, userId_, semesterId_, courses_, curCourse, assigns_, curRow>>
    /\ reloadUpcoming(okU, TRUE)
    /\ msg' = NoMsg /\ last' = DidUp("reloadUpcoming", <<>>, 0, okU)

\* the main window is closed: app.exec() returns
MainWindow_close ==
    /\ pc = "main"
    /\ msg' = NoMsg
    /\ Exit("main", 0)

----------------------------------------------------------------------------
(* The program on a new, empty database file *)

Init ==
    /\ users = {} /\ semesters = {} /\ courses = {} /\ assignments = {}
    /\ seq = [users |-> 0, semesters |-> 0, courses |-> 0, assignments |-> 0]
    /\ pc = "start"
    /\ userId_ = -1 /\ semesterId_ = -1
    /\ courses_ = <<>> /\ curCourse = 0 /\ assigns_ = <<>> /\ curRow = 0
    /\ upcoming_ = <<>> /\ dlg = NoDlg
    /\ msg = NoMsg /\ last = Did("start", <<>>, 0)

Next ==
    \/ \E okOpen, okMigrate \in BOOLEAN : main(okOpen, okMigrate)
    \/ Relaunch
    \/ \E u \in UsernameTexts, p \in PasswordTexts, ok \in BOOLEAN : AuthDialog_onLogin(u, p, ok)
    \/ \E u \in UsernameTexts, p \in PasswordTexts, t \in Clock, ok \in BOOLEAN :
          AuthDialog_onRegister(u, p, t, ok)
    \/ AuthDialog_close
    \/ \E term \in Terms, year \in Years, okSelect, okInsert, okC, okA, okU \in BOOLEAN :
          SemesterPicker_onOk(term, year, okSelect, okInsert, okC, okA, okU)
    \/ SemesterPicker_close
    \/ pickSemester
    \/ addCourse
    \/ editCourse
    \/ \E code \in CodeTexts, name \in NameTexts, color \in ColorTexts, ok, okC, okA \in BOOLEAN :
          CourseDialog_onSave(code, name, color, ok, okC, okA)
    \/ CourseDialog_close
    \/ \E yes, ok1, ok2, okC, okA, okU \in BOOLEAN : deleteCourse(yes, ok1, ok2, okC, okA, okU)
    \/ addAssignment
    \/ editAssignment
    \/ \E type \in TypeChoices, title \in TitleTexts, due \in Dues, topics \in TopicsTexts,
          notes \in NotesTexts, ok, okA, okU \in BOOLEAN :
          AssignmentDialog_onSave(type, title, due, topics, notes, ok, okA, okU, TRUE, MaxAssignId)
    \/ AssignmentDialog_close
    \/ \E yes, ok, okA, okU \in BOOLEAN : deleteAssignment(yes, ok, okA, okU)
    \/ \E i \in 1..MaxCourseId, okA \in BOOLEAN : selectCourse(i, okA)
    \/ \E row \in 1..MaxAssignId : selectAssignment(row)
    \/ \E okU \in BOOLEAN : refreshUpcoming(okU)
    \/ MainWindow_close

Spec == Init /\ [][Next]_vars

----------------------------------------------------------------------------
(* The whole program has too many states to enumerate; each specification *)
(* below is one part of it, started in a state that Spec reaches.         *)

(* SpecStartup: from a new database file to the main window and back:     *)
(* main, the AuthDialog, and closing the windows.                         *)

NextStartup ==
    \/ \E okOpen, okMigrate \in BOOLEAN : main(okOpen, okMigrate)
    \/ Relaunch
    \/ \E u \in UsernameTexts, p \in PasswordTexts, ok \in BOOLEAN : AuthDialog_onLogin(u, p, ok)
    \/ \E u \in UsernameTexts, p \in PasswordTexts, t \in Clock, ok \in BOOLEAN :
          AuthDialog_onRegister(u, p, t, ok)
    \/ AuthDialog_close
    \/ SemesterPicker_close
    \/ MainWindow_close

SpecStartup == Init /\ [][NextStartup]_vars

(* SpecMain: the main window of alice's session in Fall of the first year, *)
(* on a database that holds nothing else yet.  The statements that write   *)
(* and the query of reloadUpcoming may fail; the queries that fill the     *)
(* course list and the assignment table succeed.                           *)

InitMain ==
    /\ users = {UserRow(1, "alice", hashPassword("pw1"), 1000)}
    /\ semesters = {SemesterRow(1, "Fall", YearMin)}
    /\ courses = {} /\ assignments = {}
    /\ seq = [users |-> 1, semesters |-> 1, courses |-> 0, assignments |-> 0]
    /\ pc = "main"
    /\ userId_ = 1 /\ semesterId_ = 1
    /\ courses_ = <<>> /\ curCourse = 0 /\ assigns_ = <<>> /\ curRow = 0
    /\ upcoming_ = <<>> /\ dlg = NoDlg
    /\ msg = NoMsg /\ last = DidUp("onOk", <<"Fall", YearMin>>, 1, TRUE)

NextMain ==
    \/ addCourse
    \/ editCourse
    \/ \E code \in CodeTexts, name \in NameTexts, color \in ColorTexts, ok \in BOOLEAN :
          CourseDialog_onSave(code, name, color, ok, TRUE, TRUE)
    \/ CourseDialog_close
    \/ \E yes, ok1, ok2, okU \in BOOLEAN : deleteCourse(yes, ok1, ok2, TRUE, TRUE, okU)
    \/ addAssignment
    \/ editAssignment
    \/ \E type \in TypeChoices, title \in TitleTexts, due \in Dues, topics \in TopicsTexts,
          notes \in NotesTexts, ok, okU \in BOOLEAN :
          AssignmentDialog_onSave(type, title, due, topics, notes, ok, TRUE, okU, FALSE,
                                  MaxAssignId)
    \/ AssignmentDialog_close
    \/ \E yes, ok, okU \in BOOLEAN : deleteAssignment(yes, ok, TRUE, okU)
    \/ \E i \in 1..MaxCourseId : selectCourse(i, TRUE)
    \/ \E row \in 1..MaxAssignId : selectAssignment(row)
    \/ \E okU \in BOOLEAN : refreshUpcoming(okU)

SpecMain == InitMain /\ [][NextMain]_vars

(* SpecSemester: the SemesterPicker of alice's session, on a database    *)
(* without semesters, courses or assignments.                              *)

InitSemester ==
    /\ users = {UserRow(1, "alice", hashPassword("pw1"), 1000)}
    /\ semesters = {} /\ courses = {} /\ assignments = {}
    /\ seq = [users |-> 1, semesters |-> 0, courses |-> 0, assignments |-> 0]
    /\ pc = "picker"
    /\ userId_ = 1 /\ semesterId_ = -1
    /\ courses_ = <<>> /\ curCourse = 0 /\ assigns_ = <<>> /\ curRow = 0
    /\ upcoming_ = <<>> /\ dlg = NoDlg
    /\ msg = NoMsg /\ last = Did("onLogin", <<"alice", "pw1">>, 1)

NextSemester ==
    \/ \E term \in Terms, year \in Years, okSelect, okInsert, okU \in BOOLEAN :
          SemesterPicker_onOk(term, year, okSelect, okInsert, TRUE, TRUE, okU)
    \/ SemesterPicker_close
    \/ pickSemester

SpecSemester == InitSemester /\ [][NextSemester]_vars

(* SpecScope: the Upcoming list over stores left by earlier sessions of    *)
(* alice and bob: both semesters, one course for each user in each         *)
(* semester, and MaxSeedRows assignments of any of these courses with any  *)
(* due instant.  Either user has logged in and is at the SemesterPicker.   *)

SeedCourses ==
    {CourseRow(1, 1, 1, "CS101", "Intro", "#4F46E5"),
     CourseRow(2, 1, 2, "MA201", "Intro", "#4F46E5"),
     CourseRow(3, 2, 1, "CS101", "Intro", "#4F46E5"),
     CourseRow(4, 2, 2, "MA201", "Intro", "#4F46E5")}

InitScope ==
    /\ users = {UserRow(1, "alice", hashPassword("pw1"), 1000),
                UserRow(2, "bob", hashPassword("pw2"), 2000)}
    /\ semesters = {SemesterRow(1, "Fall", YearMin), SemesterRow(2, "Spring", YearMin)}
    /\ courses = SeedCourses
    /\ \E f \in [1..MaxSeedRows -> Ids(SeedCourses) \X Dues] :
          assignments = {AssignmentRow(i, f[i][1], "HW", "T", f[i][2], Null, Null) :
                           i \in 1..MaxSeedRows}
    /\ seq = [users |-> 2, semesters |-> 2, courses |-> 4, assignments |-> MaxSeedRows]
    /\ pc = "picker"
    /\ userId_ \in {1, 2} /\ semesterId_ = -1
    /\ courses_ = <<>> /\ curCourse = 0 /\ assigns_ = <<>> /\ curRow = 0
    /\ upcoming_ = <<>> /\ dlg = NoDlg
    /\ msg = NoMsg /\ last = Did("onLogin", <<>>, userId_)

NextScope ==
    \/ \E term \in Terms, year \in Years, okSelect, okU \in BOOLEAN :
          SemesterPicker_onOk(term, year, okSelect, FALSE, TRUE, TRUE, okU)
    \/ SemesterPicker_close
    \/ pickSemester
    \/ \E okU \in BOOLEAN : refreshUpcoming(okU)

SpecScope == InitScope /\ [][NextScope]_vars

(* SpecRank: the ranking with more candidates than the list shows: alice's *)
(* session with one course selected, to which assignments are added, up to *)
(* MaxRows of them.  All statements succeed.                               *)

InitRank ==
    /\ users = {UserRow(1, "alice", hashPassword("pw1"), 1000)}
    /\ semesters = {SemesterRow(1, "Fall", YearMin)}
    /\ courses = {CourseRow(1, 1, 1, "CS101", "Intro", "#4F46E5")}
    /\ assignments = {}
    /\ seq = [users |-> 1, semesters |-> 1, courses |-> 1, assignments |-> 0]
    /\ pc = "main"
    /\ userId_ = 1 /\ semesterId_ = 1
    /\ courses_ = <<CourseItem(CourseRow(1, 1, 1, "CS101", "Intro", "#4F46E5"))>>
    /\ curCourse = 1 /\ assigns_ = <<>> /\ curRow = 0
    /\ upcoming_ = <<>> /\ dlg = NoDlg
    /\ msg = NoMsg /\ last = Did("CourseDialog::onSave", -1, TRUE)

NextRank ==
    \/ addAssignment
    \/ \E due \in RankDues :
          AssignmentDialog_onSave("HW", "T", due, "", "", TRUE, TRUE, TRUE, FALSE, MaxRows)

SpecRank == InitRank /\ [][NextRank]_vars

(* SpecShared: the courses of SpecMain with a second instance of the       *)
(* program running on the same database file and deleting courses.         *)

\* MainWindow::deleteCourse of the other instance, both statements succeeding
otherInstance_deleteCourse(courseId) ==
    /\ courseId \in Ids(courses)
    /\ assignments' = DeleteAssignmentsOf(assignments, courseId)
    /\ courses' = DeleteRow(courses, courseId)
    /\ UNCHANGED <<users, semesters, seq, pc, userId_, semesterId_, views, dlg, msg, last>>

NextShared ==
    \/ addCourse
    \/ editCourse
    \/ \E code \in CodeTexts, name \in NameTexts, color \in ColorTexts, ok \in BOOLEAN :
          CourseDialog_onSave(code, name, color, ok, TRUE, TRUE)
    \/ CourseDialog_close
    \/ \E i \in 1..MaxCourseId : selectCourse(i, TRUE)
    \/ \E c \in 1..MaxCourseId : otherInstance_deleteCourse(c)

SpecShared == InitMain /\ [][NextShared]_vars

(* SpecEdit: editing on a store left by earlier sessions of alice and     *)
(* bob: the courses of SpecScope, two assignments of alice's Fall course   *)
(* and one of bob's.  Either user chooses a semester and edits the course  *)
(* and the assignments it holds for them.  Nothing is added or deleted;    *)
(* the UPDATE statements may fail, the queries that fill the views         *)
(* succeed.                                                                *)

InitEdit ==
    /\ users = {UserRow(1, "alice", hashPassword("pw1"), 1000),
                UserRow(2, "bob", hashPassword("pw2"), 2000)}
    /\ semesters = {SemesterRow(1, "Fall", YearMin), SemesterRow(2, "Spring", YearMin)}
    /\ courses = SeedCourses
    /\ assignments = {AssignmentRow(1, 1, "HW", "T", 1, Null, Null),
                      AssignmentRow(2, 1, "HW", "T", 2, Null, Null),
                      AssignmentRow(3, 3, "HW", "T", 1, Null, Null)}
    /\ seq = [users |-> 2, semesters |-> 2, courses |-> 4, assignments |-> 3]
    /\ pc = "picker"
    /\ userId_ \in {1, 2} /\ semesterId_ = -1
    /\ courses_ = <<>> /\ curCourse = 0 /\ assigns_ = <<>> /\ curRow = 0
    /\ upcoming_ = <<>> /\ dlg = NoDlg
    /\ msg = NoMsg /\ last = Did("onLogin", <<>>, userId_)

NextEdit ==
    \/ \E term \in Terms, year \in Years :
          SemesterPicker_onOk(term, year, TRUE, FALSE, TRUE, TRUE, TRUE)
    \/ pickSemester
    \/ editCourse
    \/ \E code \in CodeTexts, name \in NameTexts, color \in ColorTexts, ok \in BOOLEAN :
          CourseDialog_onSave(code, name, color, ok, TRUE, TRUE)
    \/ CourseDialog_close
    \/ editAssignment
    \/ \E type \in TypeChoices, title \in TitleTexts, due \in Dues, topics \in TopicsTexts,
          notes \in NotesTexts, ok \in BOOLEAN :
          AssignmentDialog_onSave(type, title, due, topics, notes, ok, TRUE, TRUE, FALSE,
                                  seq.assignments)
    \/ AssignmentDialog_close
    \/ \E row \in 1..Len(assigns_) : selectAssignment(row)

SpecEdit == InitEdit /\ [][NextEdit]_vars

----------------------------------------------------------------------------
(* What the claims are stated with *)

\* the assignments in the scope of the session
Scoped ==
    {a \in assignments : \E c \in courses :
        c.id = a.course_id /\ c.user_id = userId_ /\ c.semester_id = semesterId_}

\* the Upcoming lists reloadUpcoming can build on the store as it is, when its
\* statements succeed: one for every order in which the query may deliver the rows
UpcomingNow ==
    {[i \in 1..Len(top) |-> UpcomingItem(top[i], courses, TRUE)] :
        top \in {TopUpcoming(rows) :
                   rows \in OrderByDue(UpcomingQuery(assignments, courses, semesterId_, userId_))}}

\* the last handler changed a course or an assignment in the store
Mutated ==
    \/ last.op = "CourseDialog::onSave" /\ last.ret
    \/ last.op = "AssignmentDialog::onSave" /\ last.ret
    \/ last.op = "deleteCourse" /\ last.ret # <<>> /\ (last.ret[1] \/ last.ret[2])
    \/ last.op = "deleteAssignment" /\ last.ret = <<TRUE>>

----------------------------------------------------------------------------
(* C1: a confirmed deleteCourse(courseId) commits either the whole cascade *)
(* (no assignment references courseId and the course row is gone) or       *)
(* nothing (courses and assignments are as before), whatever the outcomes  *)
(* of its two DELETE statements.                                           *)
C1_DeleteCourseAtomic ==
    [][(last'.op = "deleteCourse" /\ last'.ret # <<>>) =>
         \/ /\ last'.arg \notin Ids(courses')
            /\ AssignmentsQuery(assignments', last'.arg) = {}
         \/ /\ courses' = courses
            /\ assignments' = assignments]_vars

(* C2: a SemesterPicker::onOk that returns a semester id leaves exactly   *)
(* one semesters row with the (term, year) it was called with, and returns *)
(* the id of that row (so a second call returns the same id).              *)
C2_GetOrCreate ==
    (last.op = "onOk" /\ last.ret > 0) =>
        LET rows == SemesterQuery(semesters, last.arg[1], last.arg[2])
        IN  Cardinality(rows) = 1 /\ last.ret \in Ids(rows)

(* C3: after reloadUpcoming the Upcoming list has at most UpcomingK items,  *)
(* its due instants ascend, and it holds the UpcomingK soonest scoped      *)
(* assignments: as many items as there are scoped assignments (up to       *)
(* UpcomingK), each a scoped assignment with its due instant, none twice,  *)
(* and every scoped assignment left out is due no sooner than any item.    *)
C3_TopK ==
    (last.up = "ok") =>
        LET n     == Len(upcoming_)
            shown == {upcoming_[i].id : i \in 1..n}
        IN  /\ n <= UpcomingK
            /\ \A i, j \in 1..n : i < j => upcoming_[i].due <= upcoming_[j].due
            /\ n = IF Cardinality(Scoped) < UpcomingK THEN Cardinality(Scoped) ELSE UpcomingK
            /\ Cardinality(shown) = n
            /\ \A i \in 1..n : \E a \in Scoped :
                  a.id = upcoming_[i].id /\ a.due_at_utc = upcoming_[i].due
            /\ \A a \in Scoped : a.id \notin shown =>
                  \A i \in 1..n : a.due_at_utc >= upcoming_[i].due

\* more scoped assignments than the list shows, of different due instants
C3_Witness ==
    /\ last.up = "ok"
    /\ Len(upcoming_) = UpcomingK
    /\ Cardinality(Scoped) > UpcomingK
    /\ upcoming_[1].due < upcoming_[UpcomingK].due
    /\ \E a \in Scoped : a.due_at_utc = upcoming_[1].due /\ a.id > upcoming_[UpcomingK].id

(* C4: the Upcoming list does not depend on the order in which the query   *)
(* delivers the scoped assignments: any two delivery orders of the same    *)
(* rows give the same sequence of assignments.                             *)
C4_OrderIndependent ==
    \A r1, r2 \in OrderByDue(UpcomingQuery(assignments, courses, semesterId_, userId_)) :
        TopUpcoming(r1) = TopUpcoming(r2)

(* C5: the assignments reloadUpcoming ranks are exactly those whose       *)
(* owning course has user_id = userId_ and semester_id = semesterId_: with *)
(* no more than UpcomingK of them, the list shows every such assignment,   *)
(* whatever its due instant, and no assignment of a course of another user *)
(* or of another semester.                                                 *)
C5_Scope ==
    (last.up = "ok" /\ Cardinality(assignments) <= UpcomingK) =>
        LET shown    == {upcoming_[i].id : i \in 1..Len(upcoming_)}
            owner(a) == RowOf(courses, a.course_id)
            inScope(a) == /\ a.course_id \in Ids(courses)
                          /\ owner(a).user_id = userId_
                          /\ owner(a).semester_id = semesterId_
        IN  /\ \A a \in assignments : inScope(a) => a.id \in shown
            /\ \A id \in shown : \E a \in assignments : a.id = id /\ inScope(a)

\* the list shows an assignment of the earliest due instant while the store
\* holds an assignment of the other user in the same semester
C5_Witness ==
    /\ last.up = "ok"
    /\ \E i \in 1..Len(upcoming_) : upcoming_[i].due = 1
    /\ \E a \in assignments, c \in courses :
          c.id = a.course_id /\ c.user_id # userId_ /\ c.semester_id = semesterId_

(* C6: a login with an existing username and a wrong password shows the   *)
(* same message as a login with a username that does not exist, and        *)
(* neither establishes a user id.                                          *)
C6_SameFailure ==
    \A u, v \in UsernameTexts, p \in PasswordTexts :
        (/\ UserQuery(users, u) # {}
         /\ \A r \in UserQuery(users, u) : r.password_hash # hashPassword(p)
         /\ UserQuery(users, v) = {})
        => LET wrong  == onLoginResult(users, u, p, TRUE)
               nobody == onLoginResult(users, v, p, TRUE)
           IN  wrong.id = -1 /\ nobody.id = -1 /\ wrong.msg = nobody.msg

(* C7: registering a username that is already in the users table fails     *)
(* ("Register failed") and leaves the table and its id counter as they     *)
(* were: one row with that username, and a login with that username        *)
(* succeeds with the password of the first registration and no other.      *)
C7_DuplicateUsername ==
    [][(last'.op = "onRegister" /\ UserQuery(users, last'.arg[1]) # {}) =>
         /\ last'.ret = FALSE
         /\ msg' = Msg("Register failed", "Username exists?")
         /\ users' = users /\ seq' = seq
         /\ Cardinality(UserQuery(users', last'.arg[1])) = 1
         /\ \A r \in UserQuery(users, last'.arg[1]), p \in PasswordTexts :
               onLoginResult(users', last'.arg[1], p, TRUE).id =
                  IF r.password_hash = hashPassword(p) THEN r.id ELSE -1]_vars

\* a registration of an existing username with another password has failed
C7_Witness ==
    /\ last.op = "onRegister" /\ last.ret = FALSE
    /\ \E r \in users :
          r.username = last.arg[1] /\ r.password_hash # hashPassword(last.arg[2])

(* C8: CourseDialog::onSave for a course id that is not in the courses     *)
(* table reports failure (the dialog is not accepted) and leaves the store *)
(* unchanged.                                                              *)
C8_UpdateNotFound ==
    [][(/\ pc = "courseDlg" /\ dlg.editId >= 0 /\ dlg.editId \notin Ids(courses)
        /\ last'.op = "CourseDialog::onSave") =>
         /\ last'.ret = FALSE
         /\ courses' = courses /\ assignments' = assignments]_vars

(* C9: every assignment row's course_id is the id of a course row.         *)
C9_NoDanglingAssignment ==
    \A a \in assignments : a.course_id \in Ids(courses)

(* C10: after every successful create, edit or delete of a course or an    *)
(* assignment the Upcoming list is the one reloadUpcoming builds on the    *)
(* store as it is now, course codes included (a failure of the refreshing  *)
(* query itself set aside).                                                *)
C10_UpcomingRefreshed ==
    (Mutated /\ last.up # "failed") => upcoming_ \in UpcomingNow

(* C11: an Upcoming item is never built from a course lookup that gave no   *)
(* row: every item shown carries a course code.  (Every course code the    *)
(* dialogs of the model save is a non-empty text, so an item with the      *)
(* empty code is one whose SELECT code FROM courses WHERE id=? failed or   *)
(* found no row.)                                                          *)
C11_LookupCorrupted ==
    \A i \in 1..Len(upcoming_) : upcoming_[i].code # ""

(* C12: on every sequence of rows the query of reloadUpcoming can deliver   *)
(* (ascending due instants, rows of equal due instant in any order), the    *)
(* Assignments popped from the priority queue are, in order, the first      *)
(* UpcomingK rows of that sequence: the queue and the bounded take of the   *)
(* ordered sequence give the same output.                                   *)
C12_HeapIsBoundedTake ==
    \A rows \in OrderByDue(UpcomingQuery(assignments, courses, semesterId_, userId_)) :
        LET top == TopUpcoming(rows)
            n   == IF Len(rows) < UpcomingK THEN Len(rows) ELSE UpcomingK
        IN  [i \in 1..Len(top) |-> top[i].id] = [i \in 1..n |-> rows[i].id]

(* C13: a start of the program that cannot open or migrate the database    *)
(* ("DB Error") ends the process at once, with no session and nothing in    *)
(* the views; the AuthDialog is shown only by a main whose open and         *)
(* migrations succeeded; and the windows of a session (the SemesterPicker   *)
(* of the MainWindow constructor, the main window, its dialogs) are         *)
(* entered only from the AuthDialog, by a login that gave the id (>= 0) of  *)
(* a users row, which is then the user of the session.                      *)
C13_StartupFatal ==
    [][LET Session(p) == p \in {"picker", "main", "courseDlg", "assignDlg"}
       IN  /\ (pc = "start" /\ msg' = Msg("DB Error", "Could not open or migrate SQLite DB."))
                => /\ pc' = "exited" /\ last' = Did("main", <<>>, 1)
                   /\ userId_' = -1 /\ semesterId_' = -1
                   /\ courses_' = <<>> /\ assigns_' = <<>> /\ upcoming_' = <<>>
           /\ (pc = "start" /\ pc' # "start") => pc' \in {"auth", "exited"}
           /\ (pc # "auth" /\ pc' = "auth")
                => pc = "start" /\ msg' = NoMsg /\ last' = Did("main", <<>>, "auth.exec")
           /\ (~Session(pc) /\ Session(pc'))
                => /\ pc = "auth" /\ last'.op = "onLogin" /\ last'.ret >= 0
                   /\ userId_' = last'.ret
           /\ Session(pc') => userId_' >= 0 /\ userId_' \in Ids(users')
           /\ ~Session(pc')
                => courses_' = <<>> /\ assigns_' = <<>> /\ upcoming_' = <<>>]_vars

\* a later start of the program fails on a database that holds a user, who
\* could have logged in
C13_Witness ==
    /\ pc = "exited"
    /\ msg = Msg("DB Error", "Could not open or migrate SQLite DB.")
    /\ users # {}

(* C14: a successful update of a course (CourseDialog::onSave with an      *)
(* editCourseId) leaves the id, user_id and semester_id of that course,    *)
(* every other course, every assignment and every other table as they      *)
(* were; a successful update of an assignment (AssignmentDialog::onSave     *)
(* with an editAssignmentId) leaves the id and course_id of that            *)
(* assignment, every other assignment, every course and every other table   *)
(* as they were.                                                            *)
C14_EditsPreserveOwnership ==
    [][/\ (/\ pc = "courseDlg" /\ dlg.editId >= 0
           /\ last'.op = "CourseDialog::onSave" /\ last'.ret = TRUE)
          => /\ assignments' = assignments
             /\ users' = users /\ semesters' = semesters /\ seq' = seq
             /\ {c \in courses' : c.id # dlg.editId} = {c \in courses : c.id # dlg.editId}
             /\ Cardinality({c \in courses' : c.id = dlg.editId})
                   = Cardinality({c \in courses : c.id = dlg.editId})
             /\ \A c \in courses, d \in courses' :
                   (c.id = dlg.editId /\ d.id = dlg.editId)
                   => d.user_id = c.user_id /\ d.semester_id = c.semester_id
       /\ (/\ pc = "assignDlg" /\ dlg.editId >= 0
           /\ last'.op = "AssignmentDialog::onSave" /\ last'.ret = TRUE)
          => /\ courses' = courses
             /\ users' = users /\ semesters' = semesters /\ seq' = seq
             /\ {a \in assignments' : a.id # dlg.editId}
                   = {a \in assignments : a.id # dlg.editId}
             /\ Cardinality({a \in assignments' : a.id = dlg.editId})
                   = Cardinality({a \in assignments : a.id = dlg.editId})
             /\ \A a \in assignments, b \in assignments' :
                   (a.id = dlg.editId /\ b.id = dlg.editId) => b.course_id = a.course_id]_vars

\* an assignment has been updated in a store in which a course was given
\* another code before, and which holds other courses and another assignment
C14_Witness ==
    /\ last.op = "AssignmentDialog::onSave" /\ last.arg >= 0 /\ last.ret = TRUE
    /\ \E c \in courses : c \notin SeedCourses /\ c.user_id = userId_
    /\ \E c \in courses : c.user_id # userId_
    /\ \E a \in assignments : a.id # last.arg

============================================================================
